---- MODULE Spec2Model ----
(***************************************************************************)
(* A model of JSONSchemaSanitizer (src/jsonschema_sanitizer.py, Python 2). *)
(*                                                                         *)
(* Python values are tagged records.  A byte string (str) and a unicode    *)
(* string are different kinds, as in Python 2; both hold a sequence of     *)
(* one-character strings.  A float is the decimal m / 10^e.  A dict is the *)
(* sequence of its <<key, value>> items in the order the dict iterates     *)
(* them; dict equality ignores that order.  Every order of the items of a  *)
(* top-level input is offered; a mapping the code builds iterates in the   *)
(* order it was filled.  A call that raises yields the outcome Raise(name).*)
(***************************************************************************)
EXTENDS Integers, Sequences, FiniteSets, TLC

\* ------------------------------------------------------------------------
\* Bounds of the model
\* ------------------------------------------------------------------------
\* Largest number of properties of a top-level input mapping.
MaxProps == 2
\* Largest number of failure records kept in the log file.
MaxLog == 2

\* ------------------------------------------------------------------------
\* Python values
\* ------------------------------------------------------------------------
None == [k |-> "none"]
Bool(b) == [k |-> "bool", b |-> b]
Integer(i) == [k |-> "int", i |-> i]
Float(m, e) == [k |-> "float", m |-> m, e |-> e]
Str(c) == [k |-> "str", c |-> c]
Uni(c) == [k |-> "unicode", c |-> c]
List(l) == [k |-> "list", l |-> l]
Dict(d) == [k |-> "dict", d |-> d]
Raise(e) == [k |-> "raise", e |-> e]

IsRaise(v) == v.k = "raise"
IsString(v) == v.k \in {"str", "unicode"}
IsNumeric(v) == v.k \in {"bool", "int", "float"}

Pow10(n) == IF n = 0 THEN 1 ELSE IF n = 1 THEN 10 ELSE IF n = 2 THEN 100 ELSE 1000

\* The numeric value of a bool, int or float over the common denominator 10^3.
Scaled(v) ==
  IF v.k = "bool" THEN (IF v.b THEN 1000 ELSE 0)
  ELSE IF v.k = "int" THEN v.i * 1000
  ELSE v.m * Pow10(3 - v.e)

\* A float with trailing zero decimals removed.
RECURSIVE NormFloat(_, _)
NormFloat(m, e) ==
  IF e > 0 /\ m % 10 = 0 THEN NormFloat(m \div 10, e - 1) ELSE Float(m, e)

\* bool(v): Python truth value.
Truthy(v) ==
  CASE v.k = "none" -> FALSE
    [] v.k = "bool" -> v.b
    [] v.k = "int" -> v.i # 0
    [] v.k = "float" -> v.m # 0
    [] v.k \in {"str", "unicode"} -> v.c # <<>>
    [] v.k = "list" -> v.l # <<>>
    [] v.k = "dict" -> v.d # <<>>
    [] OTHER -> TRUE

\* Dict helpers: keys, membership, lookup, deletion, item assignment.
Keys(d) == {d[i][1] : i \in 1..Len(d)}
HasKey(d, key) == key \in Keys(d)
Lookup(d, key) == d[CHOOSE i \in 1..Len(d) : d[i][1] = key][2]
DictGet(d, key, default) == IF HasKey(d, key) THEN Lookup(d, key) ELSE default
DictDel(d, key) == SelectSeq(d, LAMBDA it : it[1] # key)
DictSet(d, key, v) ==
  IF HasKey(d, key)
    THEN [i \in 1..Len(d) |-> IF d[i][1] = key THEN <<key, v>> ELSE d[i]]
    ELSE Append(d, <<key, v>>)

\* a == b in Python.
RECURSIVE PyEq(_, _)
PyEq(a, b) ==
  CASE IsNumeric(a) /\ IsNumeric(b) -> Scaled(a) = Scaled(b)
    [] IsString(a) /\ IsString(b) -> a.c = b.c
    [] a.k = "none" /\ b.k = "none" -> TRUE
    [] a.k = "list" /\ b.k = "list" ->
         /\ Len(a.l) = Len(b.l)
         /\ \A i \in 1..Len(a.l) : PyEq(a.l[i], b.l[i])
    [] a.k = "dict" /\ b.k = "dict" ->
         /\ Keys(a.d) = Keys(b.d)
         /\ \A key \in Keys(a.d) : PyEq(Lookup(a.d, key), Lookup(b.d, key))
    [] OTHER -> FALSE

\* value in sequence, in Python.
PyIn(v, seq) == \E i \in 1..Len(seq) : PyEq(v, seq[i])

\* ------------------------------------------------------------------------
\* Python text conversions
\* ------------------------------------------------------------------------
Digits == <<"0", "1", "2", "3", "4", "5", "6", "7", "8", "9">>
IsDigit(c) == \E i \in 1..10 : Digits[i] = c
DigitVal(c) == (CHOOSE i \in 1..10 : Digits[i] = c) - 1

Upper == <<"A", "E", "F", "L", "R", "S", "T", "U", "X">>
LowerOf == <<"a", "e", "f", "l", "r", "s", "t", "u", "x">>
\* c.lower() for one character.
LowerChar(c) ==
  IF \E i \in 1..Len(Upper) : Upper[i] = c
    THEN LowerOf[CHOOSE i \in 1..Len(Upper) : Upper[i] = c]
    ELSE c
\* s.lower()
Lower(cs) == [i \in 1..Len(cs) |-> LowerChar(cs[i])]

\* s.strip() for blanks.
RECURSIVE Strip(_)
Strip(cs) ==
  IF cs = <<>> THEN cs
  ELSE IF Head(cs) = " " THEN Strip(Tail(cs))
  ELSE IF cs[Len(cs)] = " " THEN Strip(SubSeq(cs, 1, Len(cs) - 1))
  ELSE cs

AllDigits(cs) == \A i \in 1..Len(cs) : IsDigit(cs[i])

\* The natural number written by a sequence of digits.
RECURSIVE DigitsVal(_)
DigitsVal(cs) ==
  IF cs = <<>> THEN 0
  ELSE DigitsVal(SubSeq(cs, 1, Len(cs) - 1)) * 10 + DigitVal(cs[Len(cs)])

\* The decimal digits of a natural number.
RECURSIVE NatChars(_)
NatChars(n) ==
  IF n < 10 THEN <<Digits[n + 1]>>
  ELSE NatChars(n \div 10) \o <<Digits[(n % 10) + 1]>>

IntChars(i) == IF i < 0 THEN <<"-">> \o NatChars(0 - i) ELSE NatChars(i)

\* The digits of n padded with leading zeros to width w.
RECURSIVE PadChars(_, _)
PadChars(n, w) ==
  IF w = 0 THEN <<>>
  ELSE PadChars(n \div 10, w - 1) \o <<Digits[(n % 10) + 1]>>

\* repr of a float m / 10^e, e.g. 4.2, 5.0, -0.5.
FloatChars(m, e) ==
  LET a == IF m < 0 THEN 0 - m ELSE m
      sign == IF m < 0 THEN <<"-">> ELSE <<>>
  IN sign \o NatChars(a \div Pow10(e)) \o <<".">> \o
       (IF e = 0 THEN <<"0">> ELSE PadChars(a % Pow10(e), e))

\* Sign and unsigned part of a stripped numeric literal.
Signed(cs) == cs # <<>> /\ Head(cs) \in {"+", "-"}
Unsigned(cs) == IF Signed(cs) THEN Tail(cs) ELSE cs
SignOf(cs) == IF cs # <<>> /\ Head(cs) = "-" THEN 0 - 1 ELSE 1

\* int(value): the integer, or the exception raised.
int(value) ==
  CASE IsString(value) ->
         LET cs == Strip(value.c)
             body == Unsigned(cs)
         IN IF body # <<>> /\ AllDigits(body)
              THEN Integer(SignOf(cs) * DigitsVal(body))
              ELSE Raise("ValueError")
    [] value.k = "int" -> value
    [] value.k = "bool" -> Integer(IF value.b THEN 1 ELSE 0)
    [] value.k = "float" ->
         LET a == IF value.m < 0 THEN 0 - value.m ELSE value.m
             q == a \div Pow10(value.e)
         IN Integer(IF value.m < 0 THEN 0 - q ELSE q)
    [] OTHER -> Raise("TypeError")

\* Position of the decimal point in a literal, 0 if there is none.
DotPos(cs) ==
  IF \E i \in 1..Len(cs) : cs[i] = "."
    THEN CHOOSE i \in 1..Len(cs) : cs[i] = "." ELSE 0

\* float(value): the float, or the exception raised.  Literals are decimal,
\* with at most three decimals; exponents, inf and nan are outside the alphabet.
float(value) ==
  CASE IsString(value) ->
         LET cs == Strip(value.c)
             body == Unsigned(cs)
             p == DotPos(body)
             ip == IF p = 0 THEN body ELSE SubSeq(body, 1, p - 1)
             fp == IF p = 0 THEN <<>> ELSE SubSeq(body, p + 1, Len(body))
         IN IF /\ AllDigits(ip) /\ AllDigits(fp)
               /\ Len(ip) + Len(fp) > 0 /\ Len(fp) <= 3
              THEN NormFloat(SignOf(cs) * DigitsVal(ip \o fp), Len(fp))
              ELSE Raise("ValueError")
    [] value.k = "float" -> value
    [] value.k = "int" -> Float(value.i, 0)
    [] value.k = "bool" -> Float(IF value.b THEN 1 ELSE 0, 0)
    [] OTHER -> Raise("TypeError")

\* The keys of the payloads and of the schema documents of the model.
KeyUniverse ==
  {"a", "b", "e", "l", "m", "n", "o", "s", "u", "x", "z", "A", "B",
   "type", "definitions", "properties"}

\* The characters of a key.
KeyChars(key) ==
  CASE key = "type" -> <<"t", "y", "p", "e">>
    [] key = "definitions" ->
         <<"d", "e", "f", "i", "n", "i", "t", "i", "o", "n", "s">>
    [] key = "properties" ->
         <<"p", "r", "o", "p", "e", "r", "t", "i", "e", "s">>
    [] OTHER -> <<key>>

\* Join a sequence of character sequences with ", ".
RECURSIVE Join(_)
Join(parts) ==
  IF parts = <<>> THEN <<>>
  ELSE IF Len(parts) = 1 THEN parts[1]
  ELSE parts[1] \o <<",", " ">> \o Join(Tail(parts))

\* repr(value); the keys of a mapping are unicode (a decoded JSON payload).
RECURSIVE repr(_)
repr(v) ==
  CASE v.k = "none" -> <<"N", "o", "n", "e">>
    [] v.k = "bool" -> IF v.b THEN <<"T", "r", "u", "e">>
                              ELSE <<"F", "a", "l", "s", "e">>
    [] v.k = "int" -> IntChars(v.i)
    [] v.k = "float" -> FloatChars(v.m, v.e)
    [] v.k = "str" -> <<"'">> \o v.c \o <<"'">>
    [] v.k = "unicode" -> <<"u", "'">> \o v.c \o <<"'">>
    [] v.k = "list" ->
         <<"[">> \o Join([i \in 1..Len(v.l) |-> repr(v.l[i])]) \o <<"]">>
    [] v.k = "dict" ->
         <<"{">> \o
         Join([i \in 1..Len(v.d) |->
                 <<"u", "'">> \o KeyChars(v.d[i][1]) \o <<"'", ":", " ">>
                   \o repr(v.d[i][2])]) \o
         <<"}">>

\* unicode(value)
unicode(v) == IF IsString(v) THEN Uni(v.c) ELSE Uni(repr(v))

\* ------------------------------------------------------------------------
\* Schema documents
\* ------------------------------------------------------------------------
\* A schema node is a function from its keys; node.get(key, default):
NodeGet(node, key, default) ==
  IF node # None /\ key \in DOMAIN node THEN node[key] ELSE default

\* The empty mapping {} used as a default schema node.
EmptyNode == <<>>

\* '#/definitions/' + definition
DefinitionPath(definition) ==
  <<"#", "/">> \o KeyChars("definitions") \o <<"/">> \o KeyChars(definition)

Ref(definition) == ("$ref" :> DefinitionPath(definition))

\* Definition A: a tagged object with a required integer and a boolean.
DefinitionA ==
  [type |-> "object",
   properties |-> [type |-> [enum |-> <<Uni(<<"A">>)>>],
                   x |-> [type |-> "integer"],
                   b |-> [type |-> "boolean"]],
   required |-> <<"x">>]

\* Definition B: a tagged object with a string, nothing required.
DefinitionB ==
  [type |-> "object",
   properties |-> [type |-> [enum |-> <<Uni(<<"B">>)>>],
                   s |-> [type |-> "string"]]]

RootProperties ==
  [a |-> [type |-> "integer"],
   b |-> [type |-> "boolean"],
   n |-> [type |-> "number"],
   s |-> [type |-> "string"],
   m |-> [type |-> "string", format |-> "email"],
   e |-> [enum |-> <<Uni(<<"x">>), Uni(<<"y">>)>>],
   l |-> [type |-> "array", items |-> [type |-> "integer"]],
   u |-> [type |-> "array",
          items |-> [oneOf |-> <<Ref("A"), Ref("B")>>]],
   o |-> Ref("A")]

\* The schema documents a sanitizer of the model is constructed with:
\* one requires the property a, the other requires nothing.
SchemaRequired ==
  [type |-> "object",
   definitions |-> [A |-> DefinitionA, B |-> DefinitionB],
   properties |-> RootProperties,
   required |-> <<"a">>]

SchemaOptional ==
  [type |-> "object",
   definitions |-> [A |-> DefinitionA, B |-> DefinitionB],
   properties |-> RootProperties]

Schemas == <<SchemaRequired, SchemaOptional>>

\* ------------------------------------------------------------------------
\* Reference path methods
\* ------------------------------------------------------------------------
\* path.split('/')
RECURSIVE Split(_, _)
Split(cs, cur) ==
  IF cs = <<>> THEN <<cur>>
  ELSE IF Head(cs) = "/" THEN <<cur>> \o Split(Tail(cs), <<>>)
  ELSE Split(Tail(cs), Append(cur, Head(cs)))

\* The key a path segment spells; a segment spelling no key finds nothing.
SegmentKey(seg) ==
  IF \E key \in KeyUniverse : KeyChars(key) = seg
    THEN CHOOSE key \in KeyUniverse : KeyChars(key) = seg
    ELSE "?"

\* value = self.schema; for key in path: value = value.get(key)
RECURSIVE Walk(_, _)
Walk(value, path) ==
  IF path = <<>> THEN value
  ELSE Walk(NodeGet(value, SegmentKey(Head(path)), None), Tail(path))

get_value_from_json_pointer_path(schema, path) ==
  Walk(schema, IF Len(path) > 1 THEN Tail(path) ELSE path)

get_reference_value(schema, path) ==
  LET path_split == Split(path, <<>>)
  IN IF \E i \in 1..Len(path_split[1]) : path_split[1][i] = "#"
       THEN get_value_from_json_pointer_path(schema, path_split)
       ELSE None

\* ------------------------------------------------------------------------
\* Init methods
\* ------------------------------------------------------------------------
\* The registry is a sequence of <<discriminant, schema node>> items.
RegistryGet(registry, key) ==
  IF \E i \in 1..Len(registry) : PyEq(registry[i][1], key)
    THEN registry[CHOOSE i \in 1..Len(registry) : PyEq(registry[i][1], key)][2]
    ELSE None

\* The discriminants one definition registers.
DefinitionItems(schema, definition) ==
  LET properties ==
        NodeGet(NodeGet(schema, "definitions", EmptyNode)[definition],
                "properties", EmptyNode)
      definition_type == NodeGet(NodeGet(properties, "type", EmptyNode),
                                 "enum", <<>>)
  IN [i \in 1..Len(definition_type) |->
        <<definition_type[i],
          get_reference_value(schema, DefinitionPath(definition))>>]

RECURSIVE StoreOf(_, _)
StoreOf(schema, names) ==
  IF names = {} THEN <<>>
  ELSE LET definition == CHOOSE d \in names : TRUE
       IN DefinitionItems(schema, definition)
            \o StoreOf(schema, names \ {definition})

create_non_primitive_types_store(schema) ==
  StoreOf(schema, DOMAIN NodeGet(schema, "definitions", EmptyNode))

\* JSONSchemaSanitizer(schema)
Construct(schema) ==
  [schema |-> schema,
   non_primitive_types |-> create_non_primitive_types_store(schema)]

\* ------------------------------------------------------------------------
\* The Schema Validator: jsonschema.validate(instance, schema), draft 4,
\* for the keywords the schema documents use.
\* ------------------------------------------------------------------------
IsType(instance, type) ==
  CASE type = "array" -> instance.k = "list"
    [] type = "boolean" -> instance.k = "bool"
    [] type = "integer" -> instance.k = "int"
    [] type = "null" -> instance.k = "none"
    [] type = "number" -> instance.k \in {"int", "float"}
    [] type = "object" -> instance.k = "dict"
    [] type = "string" -> instance.k \in {"str", "unicode"}
    [] OTHER -> FALSE

RECURSIVE Valid(_, _, _)
Valid(root, instance, node) ==
  IF "$ref" \in DOMAIN node
    THEN Valid(root, instance, get_reference_value(root, node["$ref"]))
    ELSE
      /\ "type" \in DOMAIN node => IsType(instance, node["type"])
      /\ "enum" \in DOMAIN node => PyIn(instance, node["enum"])
      /\ ("required" \in DOMAIN node /\ instance.k = "dict") =>
           \A i \in 1..Len(node["required"]) :
              HasKey(instance.d, node["required"][i])
      /\ ("properties" \in DOMAIN node /\ instance.k = "dict") =>
           \A key \in Keys(instance.d) \cap DOMAIN node["properties"] :
              Valid(root, Lookup(instance.d, key), node["properties"][key])
      /\ ("items" \in DOMAIN node /\ instance.k = "list") =>
           \A i \in 1..Len(instance.l) :
              Valid(root, instance.l[i], node["items"])
      /\ "oneOf" \in DOMAIN node =>
           Cardinality({i \in 1..Len(node["oneOf"]) :
                          Valid(root, instance, node["oneOf"][i])}) = 1

\* validate(instance, schema) returns normally.
validate(instance, schema) == Valid(schema, instance, schema)

\* ------------------------------------------------------------------------
\* Primitive type methods.  Each yields [r |-> the value returned or the
\* exception raised, m |-> the argument object as the call leaves it].
\* ------------------------------------------------------------------------
Result(r, m) == [r |-> r, m |-> m]

false_values == <<Str(<<"f">>), Str(<<"f", "a", "l", "s", "e">>), Bool(FALSE)>>
true_values == <<Str(<<"t">>), Str(<<"t", "r", "u", "e">>), Bool(TRUE)>>

format_bool(value) ==
  LET lowered == IF value.k = "str" THEN Str(Lower(value.c)) ELSE value
  IN IF PyIn(lowered, false_values) THEN Bool(FALSE)
     ELSE IF PyIn(lowered, true_values) THEN Bool(TRUE)
     ELSE None

\* The except clause prints 'Could not convert ' + value, a TypeError when
\* value is not a string.
format_int(value) ==
  LET integer == int(value)
  IN IF integer = Raise("ValueError")
       THEN (IF IsString(value) THEN None ELSE Raise("TypeError"))
       ELSE integer

format_number(value) ==
  LET floating_point == float(value)
  IN IF floating_point = Raise("ValueError")
       THEN (IF IsString(value) THEN None ELSE Raise("TypeError"))
       ELSE floating_point

format_null(value) == None

format_default(value) == unicode(value)

\* The format methods that are stubs (pass) return None.
StubFormats == {"email", "hostname", "ipv4", "ipv6", "reg-ex", "uri"}

\* The schema documents of the model declare no date-time format, whose
\* method is a call into dateutil and rfc3339.
format_string(value, schema_property_object) ==
  LET format == NodeGet(schema_property_object, "format", "default")
  IN IF format \in StubFormats THEN None ELSE format_default(value)

RECURSIVE format_array(_, _, _)
RECURSIVE format_value_type_list(_, _, _, _, _)
RECURSIVE format_object(_, _, _)
RECURSIVE one_of(_, _)
RECURSIVE Dispatch(_, _, _, _)
RECURSIVE MapItems(_, _, _, _, _, _)
RECURSIVE OneOfLoop(_, _, _, _)
RECURSIVE PropertyLoop(_, _, _, _, _)

\* primitive_types.get(type, KeyError(...))(value, spo): an unknown type
\* yields the KeyError instance, and calling it is a TypeError.
Dispatch(self, type, value, spo) ==
  CASE type = "array" -> format_array(self, value, spo)
    [] type = "boolean" -> Result(format_bool(value), value)
    [] type = "integer" -> Result(format_int(value), value)
    [] type = "null" -> Result(format_null(value), value)
    [] type = "number" -> Result(format_number(value), value)
    [] type = "object" -> format_object(self, value, spo)
    [] type = "string" -> Result(format_string(value, spo), value)
    [] OTHER -> Result(Raise("TypeError"), value)

\* return [primitive_type_func(value, items)], given the call's result.
Singular(one) ==
  IF IsRaise(one.r) THEN one ELSE Result(List(<<one.r>>), one.m)

\* items.get('type', None); "" stands for None.
ItemType(schema_property_object) ==
  NodeGet(NodeGet(schema_property_object, "items", EmptyNode), "type", "")

format_array(self, value, schema_property_object) ==
  IF value.k = "list"
    THEN format_value_type_list(self, value, schema_property_object,
           NodeGet(schema_property_object, "items", EmptyNode),
           ItemType(schema_property_object))
  ELSE IF ItemType(schema_property_object) # ""
    THEN Singular(Dispatch(self, ItemType(schema_property_object), value,
                    NodeGet(schema_property_object, "items", EmptyNode)))
  ELSE Result(List(<<value>>), value)

\* One step of the list comprehension, given the result one for element i.
MapNext(self, type, items, value, i, done, one) ==
  IF IsRaise(one.r) THEN Result(one.r, List([value EXCEPT ![i] = one.m]))
  ELSE MapItems(self, type, items, [value EXCEPT ![i] = one.m], i + 1,
                Append(done, one.r))

\* [primitive_type_func(x, items) for x in value], from element i on; done
\* holds the results so far, value the list with the elements as left.
MapItems(self, type, items, value, i, done) ==
  IF i > Len(value) THEN Result(List(done), List(value))
  ELSE MapNext(self, type, items, value, i, done,
               Dispatch(self, type, value[i], items))

format_value_type_list(self, value, schema_property_object, items, array_item_type) ==
  IF NodeGet(items, "oneOf", <<>>) # <<>> THEN one_of(self, value)
  ELSE IF array_item_type = "" THEN Result(value, value)
  ELSE MapItems(self, array_item_type, items, value.l, 1, <<>>)

\* One step of the loop of _one_of, given the result cleaned for element i.
OneOfNext(self, one_of_array, i, build_array, cleaned) ==
  IF IsRaise(cleaned.r)
    THEN Result(cleaned.r, List([one_of_array EXCEPT ![i] = cleaned.m]))
  ELSE OneOfLoop(self, [one_of_array EXCEPT ![i] = cleaned.m], i + 1,
                 IF Truthy(cleaned.r) THEN Append(build_array, cleaned.r)
                                      ELSE build_array)

\* The loop of _one_of from element i on.
OneOfLoop(self, one_of_array, i, build_array) ==
  IF i > Len(one_of_array)
    THEN Result(List(build_array), List(one_of_array))
  ELSE OneOfNext(self, one_of_array, i, build_array,
                 format_object(self, one_of_array[i], None))

one_of(self, one_of_array) == OneOfLoop(self, one_of_array.l, 1, <<>>)

\* How the property loop of format_object ended: st is "end", "break" or
\* "raise" (with the exception in e); object holds the items as left and
\* sanitized_object the output.
LoopEnd(st, e, sanitized_object, object) ==
  [st |-> st, e |-> e, sanitized_object |-> sanitized_object,
   object |-> object]

\* spo after "if ref: spo = self.get_reference_value(ref)".
Resolve(self, declared) ==
  IF NodeGet(declared, "$ref", <<>>) # <<>>
    THEN get_reference_value(self.schema, declared["$ref"])
    ELSE declared

\* The end of one iteration, given the result one of the type method.
PropertyStore(self, schema_property_object, object, i, sanitized_object, one) ==
  IF IsRaise(one.r)
    THEN LoopEnd("raise", one.r, sanitized_object,
                 [object EXCEPT ![i] = <<object[i][1], one.m>>])
    ELSE PropertyLoop(self, schema_property_object,
           [object EXCEPT ![i] = <<object[i][1], one.m>>], i + 1,
           IF Truthy(one.r)
             THEN DictSet(sanitized_object, object[i][1], one.r)
             ELSE sanitized_object)

\* One iteration, given the resolved schema spo of the property.
PropertyStep(self, schema_property_object, object, i, sanitized_object, spo) ==
  IF NodeGet(spo, "enum", <<>>) # <<>>
    THEN IF PyIn(object[i][2], spo["enum"])
           THEN PropertyLoop(self, schema_property_object, object, i + 1,
                  DictSet(sanitized_object, object[i][1], object[i][2]))
           ELSE LoopEnd("break", None, sanitized_object, object)
  ELSE IF "type" \notin DOMAIN spo
    THEN LoopEnd("raise", Raise("KeyError"), sanitized_object, object)
  ELSE PropertyStore(self, schema_property_object, object, i,
         sanitized_object,
         Dispatch(self, spo["type"], object[i][2], spo))

\* The property loop of format_object from item i on.
PropertyLoop(self, schema_property_object, object, i, sanitized_object) ==
  IF i > Len(object) THEN LoopEnd("end", None, sanitized_object, object)
  ELSE IF schema_property_object = None
    THEN LoopEnd("raise", Raise("TypeError"), sanitized_object, object)
  ELSE IF \/ "properties" \notin DOMAIN schema_property_object
          \/ object[i][1] \notin DOMAIN schema_property_object["properties"]
    THEN LoopEnd("raise", Raise("KeyError"), sanitized_object, object)
  ELSE PropertyStep(self, schema_property_object, object, i,
         sanitized_object,
         Resolve(self, schema_property_object["properties"][object[i][1]]))

\* The required check with the reset of the output left out.
RequiredCheck_NoReset(sanitized_object, required_keys, i) == sanitized_object

\* The required check at the end of format_object.
RECURSIVE RequiredCheck(_, _, _)
RequiredCheck(sanitized_object, required_keys, i) ==
  IF i > Len(required_keys) THEN sanitized_object
  ELSE RequiredCheck(
         IF Truthy(DictGet(sanitized_object, required_keys[i], None))
           THEN sanitized_object ELSE <<>>,
         required_keys, i + 1)

\* The output of the property loop with the discriminant put back.
WithType(sanitized_object, definition_type) ==
  IF Truthy(definition_type)
    THEN DictSet(sanitized_object, "type", definition_type)
    ELSE sanitized_object

\* definition_type = object.get(u'type', None)
DefinitionType(object) == DictGet(object.d, "type", None)

\* The schema node format_object works with: the registered definition of
\* a tagged object, else the node it was passed.
SchemaFor(self, object, schema_property_object) ==
  IF Truthy(DefinitionType(object))
    THEN RegistryGet(self.non_primitive_types, DefinitionType(object))
    ELSE schema_property_object

\* The items the property loop iterates: del object['type'] when tagged.
Working(object) ==
  IF Truthy(DefinitionType(object))
    THEN DictDel(object.d, "type") ELSE object.d

\* format_object after its property loop.
ObjectEnd(definition_type, spo, loop) ==
  IF loop.st = "raise" THEN Result(loop.e, Dict(loop.object))
  ELSE IF loop.sanitized_object = <<>> THEN Result(None, Dict(loop.object))
  ELSE Result(
         Dict(RequiredCheck(WithType(loop.sanitized_object, definition_type),
                            NodeGet(spo, "required", <<>>), 1)),
         Dict(loop.object))

format_object(self, object, schema_property_object) ==
  IF object.k # "dict" THEN Result(Raise("AttributeError"), object)
  ELSE IF /\ Truthy(DefinitionType(object))
          /\ DefinitionType(object).k \in {"list", "dict"}
    THEN Result(Raise("TypeError"), object)
  ELSE IF /\ Truthy(DefinitionType(object))
          /\ SchemaFor(self, object, schema_property_object) = None
    THEN Result(None, object)
  ELSE ObjectEnd(DefinitionType(object),
         SchemaFor(self, object, schema_property_object),
         PropertyLoop(self, SchemaFor(self, object, schema_property_object),
                      Working(object), 1, <<>>))

\* ------------------------------------------------------------------------
\* Main method
\* ------------------------------------------------------------------------
\* sanitize_properties(dirty_object): what the call returns or raises, the
\* argument as left, the value of its local sanitized_object, the number of
\* calls of validate, and the records written with logging.error.
Outcome(r, m, sanitized_object, validations, accepted, records) ==
  [r |-> r, m |-> m, sanitized_object |-> sanitized_object,
   validations |-> validations, accepted |-> accepted, records |-> records]

\* The validation gate with the logging.error call left out.
Gate_NoRecord(self, formatted) ==
  IF IsRaise(formatted.r)
    THEN Outcome(formatted.r, formatted.m, None, 0, FALSE, <<>>)
  ELSE IF Truthy(formatted.r)
    THEN IF validate(formatted.r, self.schema)
           THEN Outcome(formatted.r, formatted.m, formatted.r, 1, TRUE, <<>>)
           ELSE Outcome(None, formatted.m, formatted.r, 1, FALSE, <<>>)
  ELSE Outcome(None, formatted.m, formatted.r, 0, FALSE, <<>>)

\* The validation gate without the guard "if sanitized_object:".
Gate_NoGuard(self, formatted) ==
  IF IsRaise(formatted.r)
    THEN Outcome(formatted.r, formatted.m, None, 0, FALSE, <<>>)
  ELSE IF validate(formatted.r, self.schema)
    THEN Outcome(formatted.r, formatted.m, formatted.r, 1, TRUE, <<>>)
  ELSE Outcome(None, formatted.m, formatted.r, 1, FALSE, <<formatted.r>>)

\* sanitize_properties from "if sanitized_object:" on, given the result of
\* format_object; an exception of format_object propagates.
Gate(self, formatted) ==
  IF IsRaise(formatted.r)
    THEN Outcome(formatted.r, formatted.m, None, 0, FALSE, <<>>)
  ELSE IF Truthy(formatted.r)
    THEN IF validate(formatted.r, self.schema)
           THEN Outcome(formatted.r, formatted.m, formatted.r, 1, TRUE, <<>>)
           ELSE Outcome(None, formatted.m, formatted.r, 1, FALSE,
                        <<formatted.r>>)
  ELSE Outcome(None, formatted.m, formatted.r, 0, FALSE, <<>>)

sanitize_properties(self, dirty_object) ==
  Gate(self, format_object(self, dirty_object, self.schema))

\* ------------------------------------------------------------------------
\* Inputs of the model
\* ------------------------------------------------------------------------
U(c) == Uni(<<c>>)
TaggedA == <<"type", U("A")>>
TaggedB == <<"type", U("B")>>

\* Objects offered where a definition is expected.
ObjAOk == Dict(<<TaggedA, <<"x", U("1")>>>>)
ObjAMissing == Dict(<<TaggedA, <<"b", U("t")>>>>)
ObjATyped == Dict(<<TaggedA, <<"x", Integer(1)>>, <<"b", Bool(FALSE)>>>>)
ObjBExtra == Dict(<<TaggedB, <<"s", U("h")>>, <<"z", Integer(1)>>>>)
ObjUnregistered == Dict(<<<<"type", U("C")>>, <<"x", U("1")>>>>)
ObjUntagged == Dict(<<<<"x", U("1")>>>>)

\* The <<key, value>> items a top-level input mapping is built from.
Fields ==
  {<<"a", Uni(<<"4", "2">>)>>, <<"a", Uni(<<"4", ".", "2">>)>>,
   <<"a", Integer(0)>>, <<"a", None>>,
   <<"b", U("t")>>, <<"b", Bool(FALSE)>>,
   <<"n", Uni(<<"4", ".", "2">>)>>,
   <<"s", U("h")>>, <<"s", Uni(<<>>)>>, <<"s", Integer(5)>>,
   <<"e", U("x")>>, <<"e", U("z")>>,
   <<"l", U("5")>>, <<"l", List(<<U("1"), U("2")>>)>>,
   <<"l", List(<<U("a")>>)>>, <<"l", List(<<>>)>>,
   <<"u", List(<<ObjAOk, ObjUnregistered>>)>>,
   <<"u", List(<<ObjUntagged>>)>>, <<"u", List(<<ObjAMissing>>)>>,
   <<"u", ObjBExtra>>,
   <<"o", ObjAOk>>, <<"o", ObjAMissing>>,
   TaggedA, <<"x", U("1")>>, <<"z", Integer(1)>>}

\* The mappings of exactly n items with distinct keys, in every order.
RECURSIVE Mappings(_)
Mappings(n) ==
  IF n = 0 THEN {<<>>}
  ELSE {Append(d, f) : <<d, f>> \in
          {p \in Mappings(n - 1) \X Fields : ~HasKey(p[1], p[2][1])}}

Inputs == UNION {{Dict(d) : d \in Mappings(n)} : n \in 0..MaxProps}

\* The values offered to the scalar formatters.
Scalars ==
  {None, Bool(TRUE), Bool(FALSE), Integer(0), Integer(1), Integer(2),
   Float(0, 0), Float(42, 1),
   Str(<<"t">>), Str(<<"T", "R", "U", "E">>), Str(<<"F">>),
   Str(<<"f", "a", "l", "s", "e">>), Str(<<"x">>),
   Uni(<<"t", "r", "u", "e">>), Uni(<<"T", "R", "U", "E">>), U("F"),
   Uni(<<"4", "2">>), Uni(<<"4", ".", "2">>), Uni(<<" ", "-", "7">>),
   Uni(<<>>), List(<<>>), List(<<Integer(1)>>), Dict(<<>>), ObjUntagged}

\* The array schemas and the values offered to format_array.
ArraySchemas ==
  {RootProperties.l, RootProperties.u, [type |-> "array"],
   [type |-> "array", items |-> [type |-> "string", format |-> "email"]]}
ArrayValues ==
  {f[2] : f \in {g \in Fields : g[1] \in {"l", "u"}}} \cup
  {U("a"), Integer(5), List(<<ObjAOk>>),
   List(<<ObjAOk, ObjATyped, ObjAMissing>>),
   List(<<Dict(<<>>), ObjAOk>>), List(<<U("a"), ObjAOk>>)}

\* ------------------------------------------------------------------------
\* The state machine: one sanitizer and its caller
\* ------------------------------------------------------------------------
VARIABLES
  self,              \* the sanitizer: schema and non_primitive_types
  log,               \* number of records in the log file
  pc,                \* "idle", "returned" or "raised"
  op,                \* the method the caller called last
  node,              \* the schema_property_object it passed, if any
  arg,               \* the argument as passed
  after,             \* the argument object as the call left it
  ret,               \* the value returned
  exc,               \* the exception raised, "" if none
  sanitized_object,  \* the local sanitized_object of sanitize_properties
  validations,       \* calls of validate made by the call
  accepted,          \* validate returned normally
  records,           \* records the call wrote to the log
  rerun              \* the argument was the previous call's result

vars == <<self, log, pc, op, node, arg, after, ret, exc, sanitized_object,
          validations, accepted, records, rerun>>

Idle ==
  /\ pc = "idle" /\ op = "" /\ node = None /\ arg = None /\ after = None
  /\ ret = None /\ exc = "" /\ sanitized_object = None /\ validations = 0
  /\ accepted = FALSE /\ records = <<>> /\ rerun = FALSE

Init ==
  /\ \E i \in 1..Len(Schemas) : self = Construct(Schemas[i])
  /\ log = 0
  /\ Idle

\* The caller's view of a call that returned or raised outcome r.
Called(name, spo, value, result) ==
  /\ op' = name
  /\ node' = spo
  /\ arg' = value
  /\ after' = result.m
  /\ pc' = IF IsRaise(result.r) THEN "raised" ELSE "returned"
  /\ ret' = IF IsRaise(result.r) THEN None ELSE result.r
  /\ exc' = IF IsRaise(result.r) THEN result.r.e ELSE ""

NoGate ==
  /\ sanitized_object' = None /\ validations' = 0 /\ accepted' = FALSE
  /\ records' = <<>> /\ rerun' = FALSE

Sanitized(dirty_object, again, out) ==
  /\ Called("sanitize_properties", None, dirty_object, out)
  /\ sanitized_object' = out.sanitized_object
  /\ validations' = out.validations
  /\ accepted' = out.accepted
  /\ records' = out.records
  /\ log' = log + Len(out.records)
  /\ rerun' = again
  /\ UNCHANGED self

SanitizeCall(dirty_object, again) ==
  Sanitized(dirty_object, again, sanitize_properties(self, dirty_object))

\* The caller sanitizes a payload.
Sanitize ==
  /\ pc = "idle" /\ log < MaxLog
  /\ \E dirty_object \in Inputs : SanitizeCall(dirty_object, FALSE)

\* The caller sanitizes the object the previous call returned.
Resanitize ==
  /\ pc = "returned" /\ op = "sanitize_properties" /\ ret # None
  /\ log < MaxLog
  /\ SanitizeCall(ret, TRUE)

FormatObject ==
  /\ pc = "idle"
  /\ \E value \in Inputs, spo \in {self.schema, DefinitionA} :
       Called("format_object", spo, value, format_object(self, value, spo))
  /\ NoGate
  /\ UNCHANGED <<self, log>>

FormatArray ==
  /\ pc = "idle"
  /\ \E value \in ArrayValues, spo \in ArraySchemas :
       Called("format_array", spo, value, format_array(self, value, spo))
  /\ NoGate
  /\ UNCHANGED <<self, log>>

FormatBool ==
  /\ pc = "idle"
  /\ \E value \in Scalars :
       Called("format_bool", None, value, Result(format_bool(value), value))
  /\ NoGate
  /\ UNCHANGED <<self, log>>

FormatInt ==
  /\ pc = "idle"
  /\ \E value \in Scalars :
       Called("format_int", None, value, Result(format_int(value), value))
  /\ NoGate
  /\ UNCHANGED <<self, log>>

FormatNumber ==
  /\ pc = "idle"
  /\ \E value \in Scalars :
       Called("format_number", None, value,
              Result(format_number(value), value))
  /\ NoGate
  /\ UNCHANGED <<self, log>>

\* The caller is done with the result of the call.
Release ==
  /\ pc # "idle"
  /\ pc' = "idle" /\ op' = "" /\ node' = None /\ arg' = None
  /\ after' = None /\ ret' = None /\ exc' = ""
  /\ NoGate
  /\ UNCHANGED <<self, log>>

Next ==
  \/ Sanitize
  \/ Resanitize
  \/ FormatObject
  \/ FormatArray
  \/ FormatBool
  \/ FormatInt
  \/ FormatNumber
  \/ Release

Spec == Init /\ [][Next]_vars

TypeOK ==
  /\ pc \in {"idle", "returned", "raised"}
  /\ log \in 0..MaxLog
  /\ validations \in 0..1

\* ------------------------------------------------------------------------
\* Properties
\* ------------------------------------------------------------------------
IsSanitize == op = "sanitize_properties"
Returned == pc = "returned"
Absent(v) == v = None \/ v = Dict(<<>>)

\* The output of the property loop of format_object on a mapping, with the
\* discriminant put back as the code does for a non-empty output.
PropertyOutput(object, spo) ==
  LET loop == PropertyLoop(self, SchemaFor(self, object, spo),
                           Working(object), 1, <<>>)
  IN IF loop.sanitized_object = <<>> THEN <<>>
     ELSE WithType(loop.sanitized_object, DefinitionType(object))

\* The schema of the mapping lists required keys and the output of the
\* property loop lacks one of them.
MissingRequired(object, spo) ==
  /\ object.k = "dict"
  /\ LET required == NodeGet(SchemaFor(self, object, spo), "required", <<>>)
     IN \E i \in 1..Len(required) :
          ~HasKey(PropertyOutput(object, spo), required[i])

HasOneOf(spo) == NodeGet(NodeGet(spo, "items", EmptyNode), "oneOf", <<>>) # <<>>

\* C1: a sanitize_properties call whose coerced object the validator rejects
\* returns None, raises nothing and writes exactly one failure record; when
\* the validator accepts the coerced object the call returns that object and
\* writes no record.
C1_ValidationGate ==
  (IsSanitize /\ pc # "idle" /\ Truthy(sanitized_object)) =>
     IF validate(sanitized_object, self.schema)
       THEN Returned /\ ret = sanitized_object /\ records = <<>>
       ELSE Returned /\ ret = None /\ exc = "" /\ records = <<sanitized_object>>

C1_Witness ==
  /\ IsSanitize /\ Returned /\ Truthy(sanitized_object)
  /\ ~validate(sanitized_object, self.schema)
  /\ ret = None /\ Len(records) = 1

\* C2: when a property whose resolved schema declares an enum carries a
\* value outside the enum, format_object yields absent for the whole object.
EnumViolated(object, spo) ==
  LET eff == SchemaFor(self, object, spo)
      properties == NodeGet(eff, "properties", EmptyNode)
      items == Working(object)
  IN \E i \in 1..Len(items) :
       /\ items[i][1] \in DOMAIN properties
       /\ LET declared == properties[items[i][1]]
              resolved == IF "$ref" \in DOMAIN declared
                            THEN get_reference_value(self.schema,
                                                     declared["$ref"])
                            ELSE declared
              enum == NodeGet(resolved, "enum", <<>>)
          IN enum # <<>> /\ ~PyIn(items[i][2], enum)

C2_EnumRollback ==
  (op = "format_object" /\ Returned /\ EnumViolated(arg, node)) => Absent(ret)

\* C3: when the schema lists required keys and one of them is missing from
\* the output of the property loop, format_object returns None or the empty
\* mapping, which sanitize_properties turns into None without validating,
\* which the enclosing object leaves out, and which the oneOf loop drops.
C3_RequiredRollback ==
  /\ (op = "format_object" /\ Returned /\ MissingRequired(arg, node)) =>
        Absent(ret)
  /\ (IsSanitize /\ Returned /\ MissingRequired(arg, self.schema)) =>
        /\ Absent(sanitized_object) /\ ret = None /\ validations = 0
  /\ (/\ op = "format_object" /\ Returned /\ node = self.schema
      /\ ~Truthy(DefinitionType(arg)) /\ HasKey(arg.d, "o")
      /\ MissingRequired(Lookup(arg.d, "o"), DefinitionA)) =>
        (ret.k = "dict" => ~HasKey(ret.d, "o"))
  /\ (op = "format_array" /\ Returned /\ HasOneOf(node) /\ arg.k = "list") =>
        /\ \A j \in 1..Len(ret.l) : ~Absent(ret.l[j])
        /\ Len(ret.l) <= Cardinality({i \in 1..Len(arg.l) :
                                        ~MissingRequired(arg.l[i], None)})

C3_Witness ==
  /\ op = "format_object" /\ Returned /\ MissingRequired(arg, node)
  /\ PropertyOutput(arg, node) # <<>>
  /\ ret = Dict(<<>>)

\* C4: sanitizing again the object a sanitize_properties call returned
\* returns an object equal to it.
C4_Idempotence ==
  (IsSanitize /\ rerun) => (Returned /\ PyEq(ret, arg))

\* C5: with oneOf items, format_array on a sequence returns, in input order,
\* the elements whose object coercion is not absent; an element matching no
\* candidate shape is dropped and the call never raises.
CoercedElement(element) == format_object(self, element, None).r

C5_OneOfFiltering ==
  (/\ op = "format_array" /\ HasOneOf(node) /\ arg.k = "list"
   /\ \A i \in 1..Len(arg.l) : arg.l[i].k = "dict") =>
     /\ Returned
     /\ ret = List(SelectSeq([i \in 1..Len(arg.l) |-> CoercedElement(arg.l[i])],
                             LAMBDA r : ~IsRaise(r) /\ ~Absent(r)))

\* C6: format_bool returns True exactly for True and the strings equal,
\* ignoring case, to "t" or "true", False exactly for False and the strings
\* equal, ignoring case, to "f" or "false", and None for anything else.
BooleanOf(value) ==
  CASE value.k = "bool" -> value
    [] IsString(value) /\ Lower(value.c) \in {<<"t">>, <<"t", "r", "u", "e">>} ->
         Bool(TRUE)
    [] IsString(value) /\
       Lower(value.c) \in {<<"f">>, <<"f", "a", "l", "s", "e">>} -> Bool(FALSE)
    [] OTHER -> None

C6_BooleanCoercion ==
  op = "format_bool" => (Returned /\ ret = BooleanOf(arg))

\* C7: a sanitize_properties or format_object call leaves the caller's
\* input mapping, and every mapping nested in it, as it was.
C7_InputNotMutated ==
  op \in {"sanitize_properties", "format_object"} => after = arg

\* C8: format_int and format_number never raise, whatever value they are
\* given, and an object with a property they cannot convert is still coerced.
Unconvertible(value) ==
  \/ IsRaise(int(value))
  \/ value.k \in {"none", "list", "dict"}

C8_ConversionNonFatal ==
  /\ op \in {"format_int", "format_number"} => Returned
  /\ (/\ op = "format_object" /\ node = self.schema
      /\ Keys(arg.d) \subseteq {"a", "b", "s"} /\ HasKey(arg.d, "a")
      /\ Unconvertible(Lookup(arg.d, "a"))) => Returned

\* C9: a property that is not enum-governed is left out of the output of
\* format_object only when its coercion yields None: False, 0, 0.0, the
\* empty string and the empty sequence are stored under their key.
C9_FalsyStored ==
  (/\ op = "format_object" /\ Returned /\ node = SchemaOptional
   /\ Keys(arg.d) \subseteq {"a", "b", "n", "s", "l"}) =>
     \A i \in 1..Len(arg.d) :
        LET spo == RootProperties[arg.d[i][1]]
        IN Dispatch(self, spo["type"], arg.d[i][2], spo).r # None =>
             (ret.k = "dict" /\ HasKey(ret.d, arg.d[i][1]))

====
